---- MODULE Spec2Model ----
(***************************************************************************)
(* Market-Detective: the multi-provider geocoding service                  *)
(* (src/geocoding_service.py).  A GeocodingService instance holds the      *)
(* credentials read from the environment and the provider registry built   *)
(* from them; geocode(address) walks the registry, one provider attempt    *)
(* per step, until an adapter returns a populated (latitude, longitude).   *)
(*                                                                         *)
(* The providers are the environment.  Live providers (mocked = FALSE)     *)
(* answer every request with any response of their response set.  Mocked   *)
(* providers (mocked = TRUE) answer from a set of fixtures, and the answer *)
(* a provider gave to a query is remembered in `mock`: it answers the same *)
(* query the same way again.                                               *)
(*                                                                         *)
(* Time is counted in the units of time.sleep.  Only the sleep in front of *)
(* the Nominatim request advances it: every other step takes no time,      *)
(* which is the least distance two Nominatim requests can have.            *)
(***************************************************************************)
EXTENDS Integers, Sequences, FiniteSets, TLC

VARIABLES
    env,        \* the process environment at construction: variable -> value
    providers,  \* self.providers, the registry
    mocked,     \* whether the providers are mocked
    mock,       \* provider -> {} (not asked yet) or {its answer to the query}
    mockAddr,   \* the address whose query the answers in mock belong to
    prev,       \* the last completed call on the query of mockAddr
    sinceNom,   \* time since the last Nominatim request (None: never sent)
    lastGap,    \* time between the last two Nominatim requests (None: < 2)
    pc,         \* per execution context: where its geocode call stands
    address,    \* per context: the argument of its call
    idx,        \* per context: position in the registry of the next attempt
    attempts,   \* per context: the providers attempted in this call, in order
    lastResp,   \* per context: {} or {the provider's answer in the last attempt}
    lastOut,    \* per context: <<>> or <<what the last attempt's adapter did>>
    firstOk,    \* per context: <<>> or <<the first attempt that returned both
                \* coordinates: its position, provider and pair>>
    result,     \* per context: the pair geocode returned
    logs        \* per context: the log records the call emitted

\* main() of src/main.py and the metadata file it keeps.
VARIABLES
    file,       \* scrape_metadata_propro.json: absent, unreadable, or its JSON
    state,      \* the ScraperState of the running process
    mpc,        \* where main() stands ("off": no process is running)
    start_page, \* start_page of the run
    page_num,   \* page_num of the loop
    listings,   \* what scrape_properties returned for page_num
    k,          \* position in listings of the item of the inner loop
    coords,     \* (lat, lon) as geocode returned them for that item
    geo,        \* per listing of the page: the pairs geocode returned for it
    handed,     \* per listing of the page: the pairs save_propro_to_db got
    processed,  \* the pages whose listings were all geocoded and handed over
    why,        \* how the page loop was last left
    wrote,      \* the outcome of the last state.save()
    runs        \* the processes started so far

mainVars == <<file, state, mpc, start_page, page_num, listings, k, coords, geo,
              handed, processed, why, wrote, runs>>

serviceVars == <<env, providers, mocked, mock, mockAddr, prev, sinceNom, lastGap,
                 pc, address, idx, attempts, lastResp, lastOut, firstOk, result,
                 logs>>

\* run_analysis of src/brain.py and the metadata file it keeps.
VARIABLES
    metadata,         \* pulled-data/scrape_metadata.json: <<>> when load_metadata
                      \* gives None, else <<its JSON object>>
    rpc,              \* where run_analysis stands
    page_range,       \* <<start_page, end_page>> once resolved
    df_clean,         \* len(df_clean); the cleaned records are 1 .. df_clean
    offset,           \* i of the batch loop
    batch_number,     \* batch_number
    saved_files,      \* the batch files written: number and records of each
    current_metadata  \* current_metadata

brainVars == <<metadata, rpc, page_range, df_clean, offset, batch_number,
               saved_files, current_metadata>>

vars == <<serviceVars, mainVars, brainVars>>

\* ---------------------------------------------------------------- values

\* Optional[float]: None, or a number.
None == <<>>
Some(x) == <<x>>
NonePair == <<None, None>>

\* JSON scalars as the HTTP providers send them.
JStr(n) == [t |-> "str", v |-> n]    \* a string holding the decimal text of n
JNum(n) == [t |-> "num", v |-> n]
JNull == [t |-> "null", v |-> 0]
JText == [t |-> "text", v |-> 0]     \* a string that is no number

\* Python's float(x) on a JSON scalar: the number of a numeric string, the
\* number itself; TypeError on null, ValueError on other text.
FloatRaises(x) == x.t \notin {"str", "num"}
FloatOf(x) == x.v

\* Addresses are sequences of characters; None is a value of its own.
NoAddress == <<"<None>">>
Addresses ==
    { NoAddress, <<>>, <<" ", "\t">>, <<"a">>, <<" ", "a", " ">> }

\* str.strip(): whitespace removed from both ends.
IsSpace(ch) == ch \in {" ", "\t", "\n"}

RECURSIVE LStrip(_)
LStrip(s) ==
    IF s # <<>> /\ IsSpace(Head(s)) THEN LStrip(Tail(s)) ELSE s

RECURSIVE RStrip(_)
RStrip(s) ==
    IF s # <<>> /\ IsSpace(s[Len(s)])
    THEN RStrip(SubSeq(s, 1, Len(s) - 1)) ELSE s

Strip(s) == RStrip(LStrip(s))

\* A mutation of IsBlank: the whitespace test forgotten.
IsBlankNoStrip(a) == a = NoAddress \/ a = <<>>

\* geocode's guard: not address or address.strip() == "".
IsBlank(a) == a = NoAddress \/ a = <<>> \/ Strip(a) = <<>>

\* ------------------------------------------------------------ construction

NominatimName == "nominatim"
KeyedProviders == {"locationiq", "opencage", "geoapify", "positionstack"}
AllProviders == KeyedProviders \cup {NominatimName}

\* os.getenv of a credential: None when unset, else the string it is set to.
EnvValues == {"<unset>", "", "key"}
Truthy(v) == v \notin {"<unset>", ""}

\* A mutation of BuildRegistry: the fallback registered first.
BuildRegistryNominatimFirst(e) ==
    LET s0 == <<NominatimName>>
        s1 == IF Truthy(e["locationiq"]) THEN Append(s0, "locationiq") ELSE s0
        s2 == IF Truthy(e["opencage"]) THEN Append(s1, "opencage") ELSE s1
        s3 == IF Truthy(e["geoapify"]) THEN Append(s2, "geoapify") ELSE s2
    IN  IF Truthy(e["positionstack"]) THEN Append(s3, "positionstack") ELSE s3

\* __init__: self.providers.
BuildRegistry(e) ==
    LET s0 == <<>>
        s1 == IF Truthy(e["locationiq"]) THEN Append(s0, "locationiq") ELSE s0
        s2 == IF Truthy(e["opencage"]) THEN Append(s1, "opencage") ELSE s1
        s3 == IF Truthy(e["geoapify"]) THEN Append(s2, "geoapify") ELSE s2
        s4 == IF Truthy(e["positionstack"]) THEN Append(s3, "positionstack") ELSE s3
    IN  Append(s4, NominatimName)

\* ---------------------------------------------------------------- adapters

\* What an adapter call does: return a pair, or raise an exception class.
Return(lat, lon) == [raised |-> FALSE, exc |-> "", val |-> <<lat, lon>>]
Raise(e) == [raised |-> TRUE, exc |-> e, val |-> NonePair]

\* An HTTP answer: requests.get raised (timeout, connection), or a status
\* and a body; json is whether the body parses, results its result list.
NetError == [neterr |-> TRUE, status |-> 0, json |-> FALSE, results |-> <<>>]
Http(s, j, rs) == [neterr |-> FALSE, status |-> s, json |-> j, results |-> rs]

\* The two raw values of a result, in the order the provider documents them
\* (locationiq lat, lon; opencage lat, lng; geoapify coordinates[0],
\* coordinates[1]; positionstack latitude, longitude).
RawPairs == { <<JStr(6), JStr(3)>>, <<JNum(3), JNum(6)>>, <<JNull, JNum(3)>> }

Item(p, pr) ==
    CASE p = "locationiq" -> [lat |-> pr[1], lon |-> pr[2]]
      [] p = "opencage" -> [geometry |-> [lat |-> pr[1], lng |-> pr[2]]]
      [] p = "geoapify" -> [geometry |-> [coordinates |-> pr]]
      [] p = "positionstack" -> [latitude |-> pr[1], longitude |-> pr[2]]

HttpResponses(p) ==
    {NetError}
    \cup {Http(s, TRUE, <<Item(p, <<JStr(6), JStr(3)>>)>>) : s \in {429, 500}}
    \cup {Http(404, TRUE, <<>>), Http(200, FALSE, <<>>), Http(200, TRUE, <<>>)}
    \cup {Http(200, TRUE, <<Item(p, pr)>>) : pr \in RawPairs}

\* What the geopy geocoder does: raise, or return None or a Location.  The
\* adapter forwards the Location's attributes unchecked, so a Location may
\* carry any Optional[float] in them.
NoLocation == <<>>
NomAnswer(e, loc) == [exc |-> e, location |-> loc]
NominatimResponses ==
    {NomAnswer(e, NoLocation) : e \in {"GeocoderTimedOut", "GeocoderServiceError", "ValueError"}}
    \cup {NomAnswer("", NoLocation)}
    \cup {NomAnswer("", <<[latitude |-> la, longitude |-> lo]>>) :
            <<la, lo>> \in {<<Some(6), Some(3)>>, <<Some(3), Some(6)>>, <<Some(6), None>>}}

Responses(p) == IF p = NominatimName THEN NominatimResponses ELSE HttpResponses(p)

\* float(a), float(b): the pair, or the error float raises.
FloatPair(a, b) ==
    IF a.t = "null" \/ b.t = "null" THEN Raise("TypeError")
    ELSE IF FloatRaises(a) \/ FloatRaises(b) THEN Raise("ValueError")
    ELSE Return(Some(FloatOf(a)), Some(FloatOf(b)))

\* _geocode_locationiq
GeocodeLocationiq(r) ==
    IF r.neterr THEN Raise("RequestException")
    ELSE IF r.status = 429 THEN Raise("Exception")
    ELSE IF r.status >= 400 THEN Raise("HTTPError")
    ELSE IF ~r.json THEN Raise("JSONDecodeError")
    ELSE IF Len(r.results) > 0
         THEN FloatPair(r.results[1].lat, r.results[1].lon)
         ELSE Return(None, None)

\* _geocode_opencage
GeocodeOpencage(r) ==
    IF r.neterr THEN Raise("RequestException")
    ELSE IF r.status = 429 THEN Raise("Exception")
    ELSE IF r.status >= 400 THEN Raise("HTTPError")
    ELSE IF ~r.json THEN Raise("JSONDecodeError")
    ELSE IF Len(r.results) > 0
         THEN FloatPair(r.results[1].geometry.lat, r.results[1].geometry.lng)
         ELSE Return(None, None)

\* A mutation of GeocodeGeoapify: the coordinate array read in order.
GeocodeGeoapifyNoSwap(r) ==
    IF r.neterr THEN Raise("RequestException")
    ELSE IF r.status = 429 THEN Raise("Exception")
    ELSE IF r.status >= 400 THEN Raise("HTTPError")
    ELSE IF ~r.json THEN Raise("JSONDecodeError")
    ELSE IF Len(r.results) > 0
         THEN FloatPair(r.results[1].geometry.coordinates[1],
                        r.results[1].geometry.coordinates[2])
         ELSE Return(None, None)

\* _geocode_geoapify: Geoapify returns [lon, lat].
GeocodeGeoapify(r) ==
    IF r.neterr THEN Raise("RequestException")
    ELSE IF r.status = 429 THEN Raise("Exception")
    ELSE IF r.status >= 400 THEN Raise("HTTPError")
    ELSE IF ~r.json THEN Raise("JSONDecodeError")
    ELSE IF Len(r.results) > 0
         THEN FloatPair(r.results[1].geometry.coordinates[2],
                        r.results[1].geometry.coordinates[1])
         ELSE Return(None, None)

\* A mutation of GeocodePositionstack: response.raise_for_status() left out.
GeocodePositionstackNoStatusCheck(r) ==
    IF r.neterr THEN Raise("RequestException")
    ELSE IF r.status = 429 THEN Raise("Exception")
    ELSE IF ~r.json THEN Raise("JSONDecodeError")
    ELSE IF Len(r.results) > 0
         THEN FloatPair(r.results[1].latitude, r.results[1].longitude)
         ELSE Return(None, None)

\* _geocode_positionstack
GeocodePositionstack(r) ==
    IF r.neterr THEN Raise("RequestException")
    ELSE IF r.status = 429 THEN Raise("Exception")
    ELSE IF r.status >= 400 THEN Raise("HTTPError")
    ELSE IF ~r.json THEN Raise("JSONDecodeError")
    ELSE IF Len(r.results) > 0
         THEN FloatPair(r.results[1].latitude, r.results[1].longitude)
         ELSE Return(None, None)

\* _geocode_nominatim, after its sleep: the geocoder's own errors are
\* re-raised wrapped in Exception, any other error propagates as it is.
GeocodeNominatim(r) ==
    IF r.exc \in {"GeocoderTimedOut", "GeocoderServiceError"} THEN Raise("Exception")
    ELSE IF r.exc # "" THEN Raise(r.exc)
    ELSE IF r.location # NoLocation
         THEN Return(r.location[1].latitude, r.location[1].longitude)
         ELSE Return(None, None)

\* _geocode_with_provider
GeocodeWithProvider(p, r) ==
    CASE p = "locationiq" -> GeocodeLocationiq(r)
      [] p = "opencage" -> GeocodeOpencage(r)
      [] p = "geoapify" -> GeocodeGeoapify(r)
      [] p = "positionstack" -> GeocodePositionstack(r)
      [] p = NominatimName -> GeocodeNominatim(r)
      [] OTHER -> Return(None, None)

\* ------------------------------------------------------------- the loop

\* The exception classes the adapters raise; all derive from Exception.
ExceptionClasses ==
    {"Exception", "RequestException", "HTTPError", "JSONDecodeError",
     "TypeError", "ValueError", "GeocoderTimedOut", "GeocoderServiceError"}

\* A mutation of HandlerCatches: only the HTTP library's errors caught.
HandlerCatchesRequestsOnly(e) == e \in {"RequestException", "HTTPError"}

\* except Exception as e
HandlerCatches(e) == e \in ExceptionClasses

\* A mutation of Populated: one coordinate is enough.
PopulatedEither(v) == v[1] # None \/ v[2] # None

\* lat is not None and lon is not None
Populated(v) == v[1] # None /\ v[2] # None

LogRecord(lvl, p, a) == [level |-> lvl, provider |-> p, address |-> a]

\* query = f"{address}, Nigeria"
Query(a) == a \o <<",", " ", "N", "i", "g", "e", "r", "i", "a">>

\* logger.warning("Empty address provided for geocoding")
BlankLog == LogRecord("warning", "", "")

\* A mutation of ExhaustedLog: the error names the query sent to the providers.
ExhaustedLogQuery(a) == LogRecord("error", "", Query(a))

\* logger.error(f"All geocoding providers failed for address: {address}")
ExhaustedLog(a) == LogRecord("error", "", a)

\* A mutation of GeocodeStep: the provider that succeeded is moved to the
\* front of the registry.
GeocodeStepPromote(o, p, a, i, reg) ==
    IF o.raised
    THEN IF HandlerCatches(o.exc)
         THEN [next |-> "continue", idx |-> i + 1, result |-> NonePair,
               log |-> <<LogRecord("warning", p, a)>>, reg |-> reg]
         ELSE [next |-> "raise", idx |-> i, result |-> NonePair,
               log |-> <<>>, reg |-> reg]
    ELSE IF Populated(o.val)
         THEN [next |-> "return", idx |-> i, result |-> o.val,
               log |-> <<LogRecord("info", p, a)>>,
               reg |-> <<p>> \o SubSeq(reg, 1, i - 1) \o SubSeq(reg, i + 1, Len(reg))]
         ELSE [next |-> "continue", idx |-> i + 1, result |-> NonePair,
               log |-> <<>>, reg |-> reg]

\* A mutation of GeocodeStep: a caught exception is not logged.
GeocodeStepSilent(o, p, a, i, reg) ==
    IF o.raised
    THEN IF HandlerCatches(o.exc)
         THEN [next |-> "continue", idx |-> i + 1, result |-> NonePair,
               log |-> <<>>, reg |-> reg]
         ELSE [next |-> "raise", idx |-> i, result |-> NonePair,
               log |-> <<>>, reg |-> reg]
    ELSE IF Populated(o.val)
         THEN [next |-> "return", idx |-> i, result |-> o.val,
               log |-> <<LogRecord("info", p, a)>>, reg |-> reg]
         ELSE [next |-> "continue", idx |-> i + 1, result |-> NonePair,
               log |-> <<>>, reg |-> reg]

\* A mutation of GeocodeStep: the loop goes on after a success.
GeocodeStepNoReturn(o, p, a, i, reg) ==
    IF o.raised
    THEN IF HandlerCatches(o.exc)
         THEN [next |-> "continue", idx |-> i + 1, result |-> NonePair,
               log |-> <<LogRecord("warning", p, a)>>, reg |-> reg]
         ELSE [next |-> "raise", idx |-> i, result |-> NonePair,
               log |-> <<>>, reg |-> reg]
    ELSE IF Populated(o.val)
         THEN [next |-> "continue", idx |-> i + 1, result |-> o.val,
               log |-> <<LogRecord("info", p, a)>>, reg |-> reg]
         ELSE [next |-> "continue", idx |-> i + 1, result |-> NonePair,
               log |-> <<>>, reg |-> reg]

\* A mutation of GeocodeStep: the pair returned as (lon, lat).
GeocodeStepSwapped(o, p, a, i, reg) ==
    IF o.raised
    THEN IF HandlerCatches(o.exc)
         THEN [next |-> "continue", idx |-> i + 1, result |-> NonePair,
               log |-> <<LogRecord("warning", p, a)>>, reg |-> reg]
         ELSE [next |-> "raise", idx |-> i, result |-> NonePair,
               log |-> <<>>, reg |-> reg]
    ELSE IF Populated(o.val)
         THEN [next |-> "return", idx |-> i, result |-> <<o.val[2], o.val[1]>>,
               log |-> <<LogRecord("info", p, a)>>, reg |-> reg]
         ELSE [next |-> "continue", idx |-> i + 1, result |-> NonePair,
               log |-> <<>>, reg |-> reg]

\* A mutation of GeocodeStep: a rate-limited provider is tried again.
GeocodeStepRetry(o, p, a, i, reg) ==
    IF o.raised
    THEN IF HandlerCatches(o.exc)
         THEN [next |-> "continue",
               idx |-> IF o.exc = "Exception" /\ i <= Len(reg) THEN i ELSE i + 1,
               result |-> NonePair,
               log |-> <<LogRecord("warning", p, a)>>, reg |-> reg]
         ELSE [next |-> "raise", idx |-> i, result |-> NonePair,
               log |-> <<>>, reg |-> reg]
    ELSE IF Populated(o.val)
         THEN [next |-> "return", idx |-> i, result |-> o.val,
               log |-> <<LogRecord("info", p, a)>>, reg |-> reg]
         ELSE [next |-> "continue", idx |-> i + 1, result |-> NonePair,
               log |-> <<>>, reg |-> reg]

\* A mutation of GeocodeStep: a provider that answered with an absent result
\* is taken off the service's list while the loop goes on.
GeocodeStepEvictAbsent(o, p, a, i, reg) ==
    IF o.raised
    THEN IF HandlerCatches(o.exc)
         THEN [next |-> "continue", idx |-> i + 1, result |-> NonePair,
               log |-> <<LogRecord("warning", p, a)>>, reg |-> reg]
         ELSE [next |-> "raise", idx |-> i, result |-> NonePair,
               log |-> <<>>, reg |-> reg]
    ELSE IF Populated(o.val)
         THEN [next |-> "return", idx |-> i, result |-> o.val,
               log |-> <<LogRecord("info", p, a)>>, reg |-> reg]
         ELSE [next |-> "continue", idx |-> i, result |-> NonePair,
               log |-> <<>>,
               reg |-> SubSeq(reg, 1, i - 1) \o SubSeq(reg, i + 1, Len(reg))]

\* A mutation of GeocodeStep: a provider that raised is dropped from the
\* registry (self.providers.remove(provider)).
GeocodeStepDropFailed(o, p, a, i, reg) ==
    IF o.raised
    THEN IF HandlerCatches(o.exc)
         THEN [next |-> "continue", idx |-> i, result |-> NonePair,
               log |-> <<LogRecord("warning", p, a)>>,
               reg |-> SubSeq(reg, 1, i - 1) \o SubSeq(reg, i + 1, Len(reg))]
         ELSE [next |-> "raise", idx |-> i, result |-> NonePair,
               log |-> <<>>, reg |-> reg]
    ELSE IF Populated(o.val)
         THEN [next |-> "return", idx |-> i, result |-> o.val,
               log |-> <<LogRecord("info", p, a)>>, reg |-> reg]
         ELSE [next |-> "continue", idx |-> i + 1, result |-> NonePair,
               log |-> <<>>, reg |-> reg]

\* One pass of the body of `for provider in self.providers`, given what the
\* adapter did (o) for provider p at position i of the registry reg: what
\* comes next, the position of the next attempt, the pair returned, the log
\* records written and the registry afterwards.
GeocodeStep(o, p, a, i, reg) ==
    IF o.raised
    THEN IF HandlerCatches(o.exc)
         THEN [next |-> "continue", idx |-> i + 1, result |-> NonePair,
               log |-> <<LogRecord("warning", p, a)>>, reg |-> reg]
         ELSE [next |-> "raise", idx |-> i, result |-> NonePair,
               log |-> <<>>, reg |-> reg]
    ELSE IF Populated(o.val)
         THEN [next |-> "return", idx |-> i, result |-> o.val,
               log |-> <<LogRecord("info", p, a)>>, reg |-> reg]
         ELSE [next |-> "continue", idx |-> i + 1, result |-> NonePair,
               log |-> <<>>, reg |-> reg]

\* ------------------------------------------------------------------ time

MaxGap == 2

\* A mutation of NominatimDelay: no sleep.
NominatimNoDelay == 1 - 1

\* time.sleep(1)
NominatimDelay == 1

\* A sleep lasts at least as long as asked.
SleepDurations == NominatimDelay .. MaxGap

Min(a, b) == IF a < b THEN a ELSE b

\* The time since the last Nominatim request, d units later (kept to MaxGap).
Elapse(since, d) == IF since = None THEN None ELSE Some(Min(since[1] + d, MaxGap))

\* ------------------------------------------------------------- the state

Ctx == {1, 2}

\* The orchestration loop calls geocode from one context.
Sequential == {1}

\* The fixtures of mocked providers: a rate-limit answer whose body holds a
\* result, an answer without results, and an answer with one result.
Fixtures(p) ==
    IF p = NominatimName
    THEN {NomAnswer("GeocoderTimedOut", NoLocation), NomAnswer("", NoLocation),
          NomAnswer("", <<[latitude |-> Some(6), longitude |-> Some(3)]>>)}
    ELSE {Http(429, TRUE, <<Item(p, <<JStr(6), JStr(3)>>)>>), Http(200, TRUE, <<>>),
          Http(200, TRUE, <<Item(p, <<JNum(3), JNum(6)>>)>>)}

\* What provider p may answer now.
Answers(p) ==
    IF ~mocked THEN Responses(p)
    ELSE IF mock[p] = {} THEN Fixtures(p)
    ELSE mock[p]

NoPrev == [valid |-> FALSE, address |-> NoAddress, result |-> NonePair, attempts |-> <<>>]
NoMock == [p \in AllProviders |-> {}]

Busy(c) == pc[c] \in {"loop", "nomreq"}

\* ScraperState.__init__ before load().
FreshState == [last_page |-> 0, scraped_pages |-> <<>>, total_records |-> 0]

NoFile == [kind |-> "absent", last_page |-> 0, scraped_pages |-> <<>>,
           total_records |-> 0]

\* No scraper process has run yet, and there is no metadata file.
InitMainOff ==
    /\ file = NoFile
    /\ state = FreshState
    /\ mpc = "off"
    /\ start_page = 1
    /\ page_num = 1
    /\ listings = <<>>
    /\ k = 1
    /\ coords = NonePair
    /\ geo = <<>>
    /\ handed = <<>>
    /\ processed = {}
    /\ why = "none"
    /\ wrote = "none"
    /\ runs = 0

InitService ==
    /\ env \in [KeyedProviders -> EnvValues]
    /\ providers = BuildRegistry(env)
    /\ mocked \in BOOLEAN
    /\ mock = NoMock
    /\ mockAddr = NoAddress
    /\ prev = NoPrev
    /\ sinceNom = None
    /\ lastGap = None
    /\ pc = [c \in Ctx |-> "idle"]
    /\ address = [c \in Ctx |-> NoAddress]
    /\ idx = [c \in Ctx |-> 1]
    /\ attempts = [c \in Ctx |-> <<>>]
    /\ lastResp = [c \in Ctx |-> {}]
    /\ lastOut = [c \in Ctx |-> <<>>]
    /\ firstOk = [c \in Ctx |-> <<>>]
    /\ result = [c \in Ctx |-> NonePair]
    /\ logs = [c \in Ctx |-> <<>>]

\* run_analysis has not been called.
InitRunIdle ==
    /\ rpc = "idle"
    /\ page_range = <<1, 1>>
    /\ df_clean = 0
    /\ offset = 0
    /\ batch_number = 1
    /\ saved_files = <<>>
    /\ current_metadata = <<>>

Init == InitService /\ InitMainOff /\ InitRunIdle /\ metadata = <<>>

\* The call that context c has completed, if it was on the mocked query.
Completed(c) ==
    IF mocked /\ pc[c] = "done" /\ ~IsBlank(address[c]) /\ address[c] = mockAddr
    THEN [valid |-> TRUE, address |-> address[c], result |-> result[c],
          attempts |-> attempts[c]]
    ELSE prev

\* geocode(a), down to the first pass of the loop.  A blank address returns
\* at once; otherwise the query is built and the loop entered (an empty
\* registry would fall through it).
Enter(c, a) ==
    /\ ~Busy(c)
    /\ address' = [address EXCEPT ![c] = a]
    /\ idx' = [idx EXCEPT ![c] = 1]
    /\ attempts' = [attempts EXCEPT ![c] = <<>>]
    /\ lastResp' = [lastResp EXCEPT ![c] = {}]
    /\ lastOut' = [lastOut EXCEPT ![c] = <<>>]
    /\ firstOk' = [firstOk EXCEPT ![c] = <<>>]
    /\ result' = [result EXCEPT ![c] = NonePair]
    /\ IF IsBlank(a)
       THEN /\ pc' = [pc EXCEPT ![c] = "done"]
            /\ logs' = [logs EXCEPT ![c] = <<BlankLog>>]
       ELSE /\ pc' = [pc EXCEPT ![c] = IF Len(providers) = 0 THEN "done" ELSE "loop"]
            /\ logs' = [logs EXCEPT ![c] =
                          IF Len(providers) = 0
                          THEN <<ExhaustedLog(a)>> ELSE <<>>]
    /\ UNCHANGED <<env, providers, mocked, sinceNom, lastGap, mainVars, brainVars>>

\* A call from the orchestration loop.  A mocked query other than the last
\* one starts with providers that have not answered it yet.
Call(c, a) ==
    /\ Enter(c, a)
    /\ IF IsBlank(a)
       THEN /\ prev' = Completed(c)
            /\ UNCHANGED <<mock, mockAddr>>
       ELSE IF mocked
            THEN /\ mockAddr' = a
                 /\ mock' = IF a = mockAddr THEN mock ELSE NoMock
                 /\ prev' = IF a = mockAddr THEN Completed(c) ELSE NoPrev
            ELSE UNCHANGED <<mock, mockAddr, prev>>

\* A call from one of several contexts that use the service at once; every
\* provider answers all of them alike.
CallShared(c, a) ==
    /\ Enter(c, a)
    /\ UNCHANGED <<mock, mockAddr, prev>>

\* The rest of a pass once provider p has answered r: the adapter's outcome,
\* then GeocodeStep; falling off the end of the loop logs the error and
\* returns (None, None).
Complete(c, p, r) ==
    LET o == GeocodeWithProvider(p, r)
        s == GeocodeStep(o, p, address[c], idx[c], providers)
        exhausted == s.next = "continue" /\ s.idx > Len(s.reg)
        both == ~o.raised /\ o.val[1] # None /\ o.val[2] # None
    IN  /\ mock' = IF mocked THEN [mock EXCEPT ![p] = {r}] ELSE mock
        /\ attempts' = [attempts EXCEPT ![c] = Append(@, p)]
        /\ lastResp' = [lastResp EXCEPT ![c] = {r}]
        /\ lastOut' = [lastOut EXCEPT ![c] = <<o>>]
        /\ firstOk' = [firstOk EXCEPT ![c] =
                         IF @ = <<>> /\ both
                         THEN <<[pos |-> idx[c], provider |-> p, val |-> o.val]>>
                         ELSE @]
        /\ providers' = s.reg
        /\ idx' = [idx EXCEPT ![c] = s.idx]
        /\ pc' = [pc EXCEPT ![c] =
                    IF s.next = "raise" THEN "raised"
                    ELSE IF s.next = "return" \/ exhausted THEN "done"
                    ELSE "loop"]
        /\ result' = [result EXCEPT ![c] =
                        IF s.next = "return" THEN s.result ELSE NonePair]
        /\ logs' = [logs EXCEPT ![c] =
                      @ \o s.log \o
                      (IF exhausted
                       THEN <<ExhaustedLog(address[c])>> ELSE <<>>)]
        /\ UNCHANGED <<env, mocked, mockAddr, prev, address, mainVars, brainVars>>

\* One pass of the loop over an HTTP provider.
AttemptHttp(c) ==
    /\ pc[c] = "loop"
    /\ idx[c] <= Len(providers)
    /\ providers[idx[c]] # NominatimName
    /\ \E r \in Answers(providers[idx[c]]) : Complete(c, providers[idx[c]], r)
    /\ UNCHANGED <<sinceNom, lastGap>>

\* The pass over Nominatim begins with time.sleep(1).
NominatimSleep(c) ==
    /\ pc[c] = "loop"
    /\ idx[c] <= Len(providers)
    /\ providers[idx[c]] = NominatimName
    /\ \E d \in SleepDurations : sinceNom' = Elapse(sinceNom, d)
    /\ pc' = [pc EXCEPT ![c] = "nomreq"]
    /\ UNCHANGED <<env, providers, mocked, mock, mockAddr, prev, lastGap, address,
                   idx, attempts, lastResp, lastOut, firstOk, result, logs,
                   mainVars, brainVars>>

\* self.nominatim.geocode(...) is sent, and the pass completes.
NominatimRequest(c) ==
    /\ pc[c] = "nomreq"
    /\ lastGap' = IF sinceNom = None THEN lastGap ELSE sinceNom
    /\ sinceNom' = Some(0)
    /\ \E r \in Answers(NominatimName) : Complete(c, NominatimName, r)

Next ==
    \E c \in Sequential :
        \/ \E a \in Addresses : Call(c, a)
        \/ AttemptHttp(c)
        \/ NominatimSleep(c)
        \/ NominatimRequest(c)

Spec == Init /\ [][Next]_vars

\* ------------------------------------------------------- concurrent callers

\* geocode run on its own from the registry reg with the providers answering
\* as ans says: the pair it returns and the providers it attempts.  defined
\* is FALSE when it would ask a provider that ans holds no answer of.
RECURSIVE GeocodeLoop(_, _, _, _, _)
GeocodeLoop(reg, a, ans, i, tried) ==
    IF i > Len(reg)
    THEN [defined |-> TRUE, result |-> NonePair, attempts |-> tried]
    ELSE IF ans[reg[i]] = {}
    THEN [defined |-> FALSE, result |-> NonePair, attempts |-> tried]
    ELSE LET p == reg[i]
             o == GeocodeWithProvider(p, CHOOSE r \in ans[p] : TRUE)
             s == GeocodeStep(o, p, a, i, reg)
         IN  IF s.next = "continue"
             THEN GeocodeLoop(s.reg, a, ans, s.idx, Append(tried, p))
             ELSE [defined |-> TRUE, result |-> s.result,
                   attempts |-> Append(tried, p)]

GeocodeAlone(reg, a, ans) ==
    IF IsBlank(a)
    THEN [defined |-> TRUE, result |-> NonePair, attempts |-> <<>>]
    ELSE GeocodeLoop(reg, a, ans, 1, <<>>)

\* Two contexts call geocode on one service at any time; the providers are
\* mocked, so that both are answered alike.
ConcEnvs ==
    {e \in [KeyedProviders -> {"<unset>", "key"}] :
        e["opencage"] = "<unset>" /\ e["positionstack"] = "<unset>"}

InitConc == Init /\ mocked /\ env \in ConcEnvs

NextConc ==
    \E c \in Ctx :
        \/ \E a \in Addresses : CallShared(c, a)
        \/ AttemptHttp(c)
        \/ NominatimSleep(c)
        \/ NominatimRequest(c)

SpecConc == InitConc /\ [][NextConc]_vars

\* ------------------------------------------------------------ src/main.py

MaxRuns == 1

\* max_pages of main().
max_pages == 5

Range(q) == {q[i] : i \in 1 .. Len(q)}

\* sorted(list(set(pages))).
RECURSIVE SortedSeq(_)
SortedSeq(S) ==
    IF S = {} THEN <<>>
    ELSE LET m == CHOOSE x \in S : \A y \in S : x <= y
         IN  <<m>> \o SortedSeq(S \ {m})

\* What json.dump writes (last_updated is never read back).
Json(st) ==
    [kind |-> "json", last_page |-> st.last_page,
     scraped_pages |-> SortedSeq(Range(st.scraped_pages)),
     total_records |-> st.total_records]

Unreadable == [kind |-> "corrupt", last_page |-> 0, scraped_pages |-> <<>>,
               total_records |-> 0]

\* ScraperState(): the defaults, then load().  A file that is missing or that
\* json.load rejects leaves the defaults.
Load(f) ==
    IF f.kind = "json"
    THEN [last_page |-> f.last_page, scraped_pages |-> f.scraped_pages,
          total_records |-> f.total_records]
    ELSE FreshState

\* ScraperState.save(): the file is written ("ok"); or open() raises and the
\* old file stays ("kept"); or the write raises after open() has truncated
\* the file ("truncated").  Either error is logged and swallowed.
SaveOutcomes == {"ok", "kept", "truncated"}

Save(f, st, out) ==
    IF out = "ok" THEN Json(st)
    ELSE IF out = "kept" THEN f
    ELSE Unreadable

\* The listings scrape_properties may find: one with an address and a URL,
\* one with neither.
Listed == [Location |-> <<"a">>, URL |-> "u"]
Bare == [Location |-> <<>>, URL |-> ""]

\* What scrape_properties may return for a page.
Pages == {<<>>, <<Listed>>, <<Bare>>, <<Listed, Bare>>, <<Bare, Listed>>,
          <<Listed, Listed>>}

\* save_propro_to_db: None without a URL or when anything in it raises,
\* otherwise the row upserted.
SavePropro(item, dbOk) ==
    IF item.URL = "" THEN None
    ELSE IF dbOk THEN Some(item.URL)
    ELSE None

\* A mutation of AfterGeocode: a listing without coordinates is skipped.
AfterGeocodeSkipAbsent(pair) ==
    IF Populated(pair) THEN "save" ELSE "items"

\* What follows `lat, lon = geocoder.geocode(address)`: the save, whatever
\* the pair.
AfterGeocode(pair) == "save"

\* A mutation of Checkpoint: the page after the finished one is recorded.
CheckpointAhead(st, p) ==
    [st EXCEPT !.last_page = p + 1, !.scraped_pages = Append(@, p + 1)]

\* state.last_page = page_num; state.scraped_pages.append(page_num).
Checkpoint(st, p) ==
    [st EXCEPT !.last_page = p, !.scraped_pages = Append(@, p)]

\* How the providers of the registry may answer one query.
ProviderAnswers(reg) ==
    {[p \in AllProviders |-> IF p \in Range(reg) THEN {g[p]} ELSE {}] :
        g \in {h \in [Range(reg) -> UNION {Fixtures(p) : p \in Range(reg)}] :
                  \A p \in Range(reg) : h[p] \in Fixtures(p)}}

\* MaxRuns runs are followed to their end, and the start of the one after.
Followed == runs <= MaxRuns

\* python main.py: ScraperState(), GeocodingService(), start_page.
StartRun ==
    /\ mpc = "off"
    /\ Followed
    /\ runs' = runs + 1
    /\ state' = Load(file)
    /\ start_page' = state'.last_page + 1
    /\ page_num' = start_page'
    /\ mpc' = "scrape"
    /\ listings' = <<>>
    /\ k' = 1
    /\ coords' = NonePair
    /\ geo' = <<>>
    /\ handed' = <<>>
    /\ UNCHANGED <<file, processed, why, wrote, serviceVars, brainVars>>

\* The head of the page loop: the range is used up, or the page is scraped
\* and an empty page breaks out of the loop.
ScrapePage ==
    /\ mpc = "scrape"
    /\ Followed
    /\ IF page_num >= start_page + max_pages
       THEN /\ mpc' = "finally"
            /\ why' = "exhausted"
            /\ UNCHANGED <<listings, k, geo, handed>>
       ELSE \E ls \in Pages :
              /\ listings' = ls
              /\ k' = 1
              /\ geo' = [i \in 1 .. Len(ls) |-> <<>>]
              /\ handed' = [i \in 1 .. Len(ls) |-> <<>>]
              /\ mpc' = IF Len(ls) = 0 THEN "finally" ELSE "items"
              /\ why' = IF Len(ls) = 0 THEN "empty" ELSE why
    /\ UNCHANGED <<file, state, start_page, page_num, coords, processed, wrote,
                   runs, serviceVars, brainVars>>

\* The first statements of the inner loop's body: the whole geocode call on
\* the item's Location.
GeocodeItem ==
    /\ mpc = "items"
    /\ k <= Len(listings)
    /\ \E ans \in ProviderAnswers(providers) :
         LET pair == GeocodeAlone(providers, listings[k].Location, ans).result
         IN  /\ coords' = pair
             /\ geo' = [geo EXCEPT ![k] = Append(@, pair)]
             /\ mpc' = AfterGeocode(pair)
             /\ k' = IF AfterGeocode(pair) = "save" THEN k ELSE k + 1
    /\ UNCHANGED <<file, state, start_page, page_num, listings, handed,
                   processed, why, wrote, runs, serviceVars, brainVars>>

\* The rest of the body: save_propro_to_db, and the count of saved rows.
SaveItem ==
    /\ mpc = "save"
    /\ \E dbOk \in BOOLEAN :
         state' = [state EXCEPT !.total_records =
                     IF SavePropro(listings[k], dbOk) # None THEN @ + 1 ELSE @]
    /\ handed' = [handed EXCEPT ![k] = Append(@, coords)]
    /\ processed' = IF k = Len(listings) /\ \A i \in 1 .. Len(listings) - 1 :
                                                Len(handed[i]) >= 1 /\ Len(geo[i]) >= 1
                    THEN processed \cup {page_num} ELSE processed
    /\ k' = k + 1
    /\ mpc' = "items"
    /\ UNCHANGED <<file, start_page, page_num, listings, coords, geo, why, wrote,
                   runs, serviceVars, brainVars>>

\* After the inner loop: the checkpoint, state.save(), and on to the next page.
FinishPage ==
    /\ mpc = "items"
    /\ k > Len(listings)
    /\ state' = Checkpoint(state, page_num)
    /\ \E out \in SaveOutcomes :
         /\ file' = Save(file, state', out)
         /\ wrote' = out
    /\ page_num' = page_num + 1
    /\ mpc' = "scrape"
    /\ UNCHANGED <<start_page, listings, k, coords, geo, handed, processed, why,
                   runs, serviceVars, brainVars>>

\* An exception or an interrupt inside the try block.
Abort ==
    /\ mpc \in {"scrape", "items", "save"}
    /\ Followed
    /\ page_num < start_page + max_pages
    /\ mpc' = "finally"
    /\ why' = "error"
    /\ UNCHANGED <<file, state, start_page, page_num, listings, k, coords, geo,
                   handed, processed, wrote, runs, serviceVars, brainVars>>

\* finally: db.disconnect(), which may raise, then state.save(); the process
\* ends, and its page is gone with it.
Finally ==
    /\ mpc = "finally"
    /\ \E disconnected \in BOOLEAN :
         IF disconnected
         THEN \E out \in SaveOutcomes :
                /\ file' = Save(file, state, out)
                /\ wrote' = out
         ELSE UNCHANGED <<file, wrote>>
    /\ mpc' = "off"
    /\ listings' = <<>>
    /\ k' = 1
    /\ coords' = NonePair
    /\ geo' = <<>>
    /\ handed' = <<>>
    /\ UNCHANGED <<state, start_page, page_num, processed, why, runs, serviceVars, brainVars>>

\* The scraper is run without provider credentials.
MainEnv == [p \in KeyedProviders |-> "<unset>"]

InitMain == Init /\ ~mocked /\ env = MainEnv

NextMain ==
    \/ StartRun
    \/ ScrapePage
    \/ GeocodeItem
    \/ SaveItem
    \/ FinishPage
    \/ Abort
    \/ Finally

SpecMain == InitMain /\ [][NextMain]_vars

\* ----------------------------------------------------------- src/brain.py

MaxRecords == 250

\* batch_size of run_analysis.
batch_size == 100

\* dict.get(key, default).
Get(m, key, default) == IF key \in DOMAIN m THEN m[key] ELSE default

\* (current_metadata.get(key, 0) if current_metadata else 0).
Stored(m, key) == IF m = <<>> THEN 0 ELSE Get(m[1], key, 0)

Metadata(lp, tr, tb) == [last_page |-> lp, total_records |-> tr, total_batches |-> tb]

\* What earlier runs may have left: nothing, a run without cleaned records,
\* a run of 250 cleaned records.
StoredBefore == {<<>>, <<Metadata(1, 0, 0)>>, <<Metadata(10, 250, 3)>>}

\* The start_page and end_page arguments.
PageArgs == {<<None, None>>, <<Some(1), Some(2)>>, <<Some(2), Some(1)>>}

\* The page range of the run.
ResolveRange(m, resume, args) ==
    IF resume
    THEN IF m = <<>> THEN <<1, 10>>
         ELSE <<Get(m[1], "last_page", 1) + 1, Get(m[1], "last_page", 1) + 10>>
    ELSE LET s == IF args[1] = None THEN 1 ELSE args[1][1]
         IN  <<s, IF args[2] = None THEN s ELSE args[2][1]>>

\* A mutation of BatchSlice: the slice stops one record early.
BatchSliceShort(n, i) ==
    [first |-> i + 1, last |-> Min(i + batch_size - 1, n)]

\* df_clean.iloc[i:i + batch_size] of n records: the records it holds.
BatchSlice(n, i) ==
    [first |-> i + 1, last |-> Min(i + batch_size, n)]

\* run_analysis down to the batch loop: the page range, the scrape, the
\* cleaning, and the batch number to begin with.
BeginAnalysis ==
    /\ rpc = "idle"
    /\ \E resume \in BOOLEAN, args \in PageArgs :
         LET r == ResolveRange(metadata, resume, args)
         IN  /\ page_range' = r
             /\ IF r[1] > r[2]
                THEN /\ rpc' = "returned"
                     /\ UNCHANGED <<df_clean, current_metadata, batch_number>>
                ELSE \E scraped \in 0 .. MaxRecords :
                       IF scraped = 0
                       THEN /\ rpc' = "returned"
                            /\ UNCHANGED <<df_clean, current_metadata, batch_number>>
                       ELSE \E n \in 0 .. scraped :
                              /\ df_clean' = n
                              /\ current_metadata' = metadata
                              /\ batch_number' = Stored(metadata, "total_batches") + 1
                              /\ rpc' = "loop"
    /\ offset' = 0
    /\ saved_files' = <<>>
    /\ UNCHANGED <<metadata, serviceVars, mainVars>>

\* One pass of `for i in range(0, len(df_clean), batch_size)`.
WriteBatch ==
    /\ rpc = "loop"
    /\ offset < df_clean
    /\ LET b == BatchSlice(df_clean, offset)
       IN  IF b.last - b.first + 1 > 0
           THEN /\ saved_files' = Append(saved_files,
                                         [number |-> batch_number,
                                          first |-> b.first, last |-> b.last])
                /\ batch_number' = batch_number + 1
           ELSE UNCHANGED <<saved_files, batch_number>>
    /\ offset' = offset + batch_size
    /\ UNCHANGED <<metadata, rpc, page_range, df_clean, current_metadata,
                   serviceVars, mainVars>>

\* to_csv raises inside save_batch: nothing catches it.
BatchRaises ==
    /\ rpc = "loop"
    /\ offset < df_clean
    /\ rpc' = "raised"
    /\ UNCHANGED <<metadata, page_range, df_clean, offset, batch_number,
                   saved_files, current_metadata, serviceVars, mainVars>>

\* After the loop: the new metadata is written, or save_metadata raises and
\* leaves the old file or an unreadable one.
UpdateMetadata ==
    /\ rpc = "loop"
    /\ offset >= df_clean
    /\ \/ /\ metadata' = <<Metadata(page_range[2],
                                    Stored(current_metadata, "total_records") + df_clean,
                                    batch_number - 1)>>
          /\ rpc' = "done"
       \/ /\ metadata' \in {metadata, <<>>}
          /\ rpc' = "raised"
    /\ UNCHANGED <<page_range, df_clean, offset, batch_number, saved_files,
                   current_metadata, serviceVars, mainVars>>

InitBrain ==
    /\ InitService
    /\ ~mocked
    /\ env = MainEnv
    /\ InitMainOff
    /\ InitRunIdle
    /\ metadata \in StoredBefore

NextBrain ==
    \/ BeginAnalysis
    \/ WriteBatch
    \/ BatchRaises
    \/ UpdateMetadata

SpecBrain == InitBrain /\ [][NextBrain]_vars

\* ---------------------------------------------------------------- claims

\* An address that is None or holds nothing but whitespace.
BlankAddress(a) == a = NoAddress \/ \A i \in 1 .. Len(a) : a[i] \in {" ", "\t", "\n"}

Called(c) == pc[c] # "idle"

LastProvider(c) == attempts[c][Len(attempts[c])]

BothPresent(v) == v[1] # None /\ v[2] # None

\* C1: a geocode call whose address is None, empty or only whitespace has
\* returned (None, None) at once: it never stands inside the loop or before
\* the Nominatim request, it attempted no provider and no provider answered
\* it, whatever the registry holds.
C1_BlankShortCircuits ==
    \A c \in Ctx :
        (Called(c) /\ BlankAddress(address[c])) =>
            /\ pc[c] = "done"
            /\ result[c] = NonePair
            /\ attempts[c] = <<>>
            /\ lastResp[c] = {}
            /\ lastOut[c] = <<>>

C1_Witness ==
    \E c \in Ctx :
        /\ pc[c] = "done"
        /\ address[c] = <<" ", "\t">>
        /\ Len(providers) = 5
        /\ attempts[c] = <<>>
        /\ result[c] = NonePair

\* C2: once an attempt of a call has returned both coordinates, the call
\* has returned, and that attempt is the last one the call made: no provider
\* after it in the registry was attempted.
C2_StopsAtFirstSuccess ==
    \A c \in Ctx :
        firstOk[c] # <<>> =>
            /\ pc[c] = "done"
            /\ Len(attempts[c]) = firstOk[c][1].pos
            /\ lastOut[c] = <<Return(firstOk[c][1].val[1], firstOk[c][1].val[2])>>

C2_Witness ==
    \E c \in Ctx :
        /\ firstOk[c] # <<>>
        /\ firstOk[c][1].pos = 2
        /\ Len(providers) = 5
        /\ pc[c] = "done"
        /\ attempts[c] = SubSeq(providers, 1, 2)

\* C3: a completed call in which the provider at position k was the first to
\* return both coordinates returns exactly that provider's pair, and that
\* provider is the one registered at position k; a completed call returns
\* coordinates only in that way.
C3_FirstSuccessIsResult ==
    \A c \in Ctx :
        pc[c] = "done" =>
            /\ firstOk[c] # <<>> =>
                  /\ result[c] = firstOk[c][1].val
                  /\ firstOk[c][1].pos \in 1 .. Len(providers)
                  /\ providers[firstOk[c][1].pos] = firstOk[c][1].provider
            /\ result[c] # NonePair => firstOk[c] # <<>>

C3_Witness ==
    \E c \in Ctx :
        /\ pc[c] = "done"
        /\ firstOk[c] # <<>>
        /\ firstOk[c][1].pos = 3
        /\ firstOk[c][1].provider = "geoapify"
        /\ result[c] = <<Some(3), Some(6)>>
        /\ Len(logs[c]) = 2

\* C4: no call ends with an exception leaving geocode, and a completed call
\* on a non-blank address in which no attempt returned both coordinates
\* returns (None, None) after attempting the whole registry.
C4_ExhaustionReturnsNone ==
    \A c \in Ctx :
        /\ pc[c] # "raised"
        /\ (pc[c] = "done" /\ ~BlankAddress(address[c]) /\ firstOk[c] = <<>>) =>
              /\ result[c] = NonePair
              /\ Len(attempts[c]) = Len(providers)

C4_Witness ==
    \E c \in Ctx :
        /\ pc[c] = "done"
        /\ ~BlankAddress(address[c])
        /\ Len(attempts[c]) = 5
        /\ firstOk[c] = <<>>
        /\ lastOut[c] = <<Raise("ValueError")>>
        /\ result[c] = NonePair

\* C5: the registry is the canonical sequence locationiq, opencage, geoapify,
\* positionstack restricted to the providers whose credential is set to a
\* non-empty value, followed by nominatim; and unsetting one credential
\* builds the same registry without that provider.
C5_RegistryFromCredentials ==
    /\ providers =
          SelectSeq(<<"locationiq", "opencage", "geoapify", "positionstack">>,
                    LAMBDA p : env[p] \notin {"<unset>", ""})
          \o <<"nominatim">>
    /\ \A p \in KeyedProviders :
          BuildRegistry([env EXCEPT ![p] = "<unset>"]) =
              SelectSeq(providers, LAMBDA q : q # p)

C5_Witness ==
    /\ env["locationiq"] = "<unset>"
    /\ env["opencage"] = "key"
    /\ env["geoapify"] = ""
    /\ env["positionstack"] = "key"
    /\ providers = <<"opencage", "positionstack", "nominatim">>
    /\ \E c \in Ctx : pc[c] = "done" /\ Len(attempts[c]) = 3

\* C6: what a completed call returns is (None, None) or a pair with both
\* coordinates, and a call whose last attempt yielded only one coordinate
\* returns (None, None).
C6_NoPartialResult ==
    \A c \in Ctx :
        pc[c] = "done" =>
            /\ result[c] = NonePair \/ BothPresent(result[c])
            /\ (/\ lastOut[c] # <<>>
                /\ ~lastOut[c][1].raised
                /\ lastOut[c][1].val # NonePair
                /\ ~BothPresent(lastOut[c][1].val)) => result[c] = NonePair

C6_Witness ==
    \E c \in Ctx :
        /\ pc[c] = "done"
        /\ lastOut[c] = <<Return(Some(6), None)>>
        /\ result[c] = NonePair

\* C7: the providers a call has attempted are the first providers of the
\* registry, in registry order and each once; inside the loop the next
\* attempt is the provider right after them; and a completed call on a
\* non-blank address without a success has attempted the whole registry.
C7_RegistryOrderOnce ==
    \A c \in Ctx :
        /\ Len(attempts[c]) <= Len(providers)
        /\ \A i \in 1 .. Len(attempts[c]) : attempts[c][i] = providers[i]
        /\ \A i, j \in 1 .. Len(attempts[c]) :
              i # j => attempts[c][i] # attempts[c][j]
        /\ Busy(c) => idx[c] = Len(attempts[c]) + 1
        /\ (pc[c] = "done" /\ ~BlankAddress(address[c]) /\ firstOk[c] = <<>>) =>
              attempts[c] = providers

C7_Witness ==
    \E c \in Ctx :
        /\ pc[c] = "done"
        /\ firstOk[c] = <<>>
        /\ attempts[c] = <<"locationiq", "opencage", "geoapify", "positionstack", "nominatim">>
        /\ \E i \in 1 .. Len(logs[c]) :
              logs[c][i] = LogRecord("warning", "locationiq", address[c])
        /\ lastResp[c] = {NomAnswer("", NoLocation)}

\* C8: when the last attempt went to an HTTP provider that answered with
\* status 200 and a body whose first result holds two numbers, the adapter
\* returned them as (latitude, longitude): for geoapify, whose coordinate
\* array is [c0, c1], the pair (c1, c0); for locationiq, opencage and
\* positionstack the latitude field and the longitude field, unswapped.
C8_CoordinateOrder ==
    \A c \in Ctx :
        (attempts[c] # <<>> /\ lastResp[c] # {} /\ LastProvider(c) \in KeyedProviders) =>
            LET p == LastProvider(c)
                r == CHOOSE x \in lastResp[c] : TRUE
            IN  (~r.neterr /\ r.status = 200 /\ r.json /\ Len(r.results) > 0) =>
                    LET it == r.results[1]
                        lat == CASE p = "locationiq" -> it.lat
                                 [] p = "opencage" -> it.geometry.lat
                                 [] p = "geoapify" -> it.geometry.coordinates[2]
                                 [] p = "positionstack" -> it.latitude
                        lon == CASE p = "locationiq" -> it.lon
                                 [] p = "opencage" -> it.geometry.lng
                                 [] p = "geoapify" -> it.geometry.coordinates[1]
                                 [] p = "positionstack" -> it.longitude
                    IN  (lat.t \in {"str", "num"} /\ lon.t \in {"str", "num"}) =>
                            lastOut[c] = <<Return(Some(lat.v), Some(lon.v))>>

C8_Witness ==
    \E c \in Ctx :
        /\ attempts[c] # <<>>
        /\ LastProvider(c) = "geoapify"
        /\ lastResp[c] = {Http(200, TRUE, <<[geometry |-> [coordinates |-> <<JStr(6), JStr(3)>>]]>>)}
        /\ lastOut[c] = <<Return(Some(3), Some(6))>>
        /\ result[c] = <<Some(3), Some(6)>>

\* C9: two consecutive Nominatim requests are at least 1 time unit apart.
C9_NominatimDelay == lastGap # None => lastGap[1] >= 1

C9_Witness ==
    /\ lastGap = Some(1)
    /\ \E c \in Ctx : pc[c] = "done" /\ attempts[c] # <<>> /\ LastProvider(c) = NominatimName

\* C10: with mocked providers, a completed call on the address of the call
\* completed before it, the providers answering as they did then, returns
\* the same pair after the same sequence of attempts.
C10_Repeatable ==
    \A c \in Ctx :
        (mocked /\ pc[c] = "done" /\ prev.valid /\ prev.address = address[c]) =>
            /\ result[c] = prev.result
            /\ attempts[c] = prev.attempts

C10_Witness ==
    \E c \in Ctx :
        /\ mocked
        /\ pc[c] = "done"
        /\ prev.valid
        /\ prev.address = address[c]
        /\ Len(attempts[c]) = 3
        /\ Len(providers) = 5
        /\ Len(logs[c]) = 3
        /\ result[c] = <<Some(6), Some(3)>>

\* C11: in every state the registry is non-empty and ends with nominatim,
\* and no step, whatever a provider answers or raises, changes the registry.
C11_RegistryStable ==
    /\ [](Len(providers) >= 1 /\ providers[Len(providers)] = "nominatim")
    /\ [][providers' = providers]_vars

C11_Witness ==
    \E c \in Ctx :
        /\ pc[c] = "done"
        /\ prev.valid
        /\ lastOut[c] = <<Raise("Exception")>>
        /\ attempts[c] = providers
        /\ providers = <<"locationiq", "geoapify", "nominatim">>

\* The log records of context c at the given level.
LogsAt(c, lvl) == {i \in 1 .. Len(logs[c]) : logs[c][i].level = lvl}

\* The last attempt of context c failed: its adapter raised, or returned a
\* pair that lacks a coordinate.
LastRaised(c) == lastOut[c] # <<>> /\ lastOut[c][1].raised
LastAbsent(c) ==
    lastOut[c] # <<>> /\ ~lastOut[c][1].raised /\ ~BothPresent(lastOut[c][1].val)

WarnsLast(c) ==
    \E i \in LogsAt(c, "warning") :
        logs[c][i] = LogRecord("warning", LastProvider(c), address[c])

\* C14 as claimed: after an attempt that failed, by raising or by returning
\* an absent result, the log holds a warning that names its provider.
C14_AsClaimed ==
    \A c \in Ctx : (LastRaised(c) \/ LastAbsent(c)) => WarnsLast(c)

\* C14: after an attempt whose adapter raised, the log holds a warning that
\* names its provider and the address, written in the same pass (only the
\* exhaustion error may follow it); after an attempt whose adapter returned
\* an absent result the log holds no warning that names its provider.
C14_WarningOnRaise ==
    \A c \in Ctx :
        /\ LastRaised(c) =>
              /\ WarnsLast(c)
              /\ \A i \in 1 .. Len(logs[c]) :
                    logs[c][i] = LogRecord("warning", LastProvider(c), address[c]) =>
                        \/ i = Len(logs[c])
                        \/ i = Len(logs[c]) - 1 /\ logs[c][Len(logs[c])].level = "error"
        /\ LastAbsent(c) => ~WarnsLast(c)

C14_Witness ==
    \E c \in Ctx :
        /\ pc[c] = "loop"
        /\ Len(attempts[c]) = 2
        /\ lastOut[c] = <<Return(None, None)>>
        /\ logs[c] = <<LogRecord("warning", providers[1], address[c])>>

\* C15: a completed call has written an error record exactly when its
\* address is not blank and no attempt returned both coordinates, that
\* record is the last one and names the address as it was passed; a call on
\* a blank address has written one warning and nothing else; and a call
\* still in the loop has written no error record.
C15_ErrorLogOnExhaustion ==
    \A c \in Ctx :
        /\ pc[c] = "done" =>
              /\ (LogsAt(c, "error") # {}) <=>
                    (~BlankAddress(address[c]) /\ firstOk[c] = <<>>)
              /\ \A i \in LogsAt(c, "error") :
                    /\ i = Len(logs[c])
                    /\ logs[c][i].address = address[c]
              /\ BlankAddress(address[c]) =>
                    /\ Len(logs[c]) = 1
                    /\ logs[c][1].level = "warning"
        /\ pc[c] # "done" => LogsAt(c, "error") = {}

C15_Witness ==
    \E c \in Ctx :
        /\ pc[c] = "done"
        /\ address[c] = <<" ", "a", " ">>
        /\ attempts[c] = providers
        /\ Len(providers) = 2
        /\ logs[c] = <<LogRecord("warning", providers[1], <<" ", "a", " ">>),
                       LogRecord("error", "", <<" ", "a", " ">>)>>

\* C16: an HTTP adapter that was answered with status 429 or another status
\* from 400 up raised, whatever the body holds; it returned both coordinates
\* only on a status below 400 with a body that parses and holds a result;
\* and on a status below 400 with a body that parses and holds no result it
\* returned the absent pair without raising.
C16_StatusBeforeBody ==
    \A c \in Ctx :
        (attempts[c] # <<>> /\ lastResp[c] # {} /\ LastProvider(c) \in KeyedProviders) =>
            LET r == CHOOSE x \in lastResp[c] : TRUE
                o == lastOut[c][1]
            IN  /\ (~r.neterr /\ r.status >= 400) => o.raised
                /\ (~o.raised /\ BothPresent(o.val)) =>
                      ~r.neterr /\ r.status < 400 /\ r.json /\ Len(r.results) >= 1
                /\ (~r.neterr /\ r.status < 400 /\ r.json /\ r.results = <<>>) =>
                      o = Return(None, None)

C16_Witness ==
    \E c \in Ctx :
        /\ attempts[c] # <<>>
        /\ LastProvider(c) = "positionstack"
        /\ lastResp[c] = {Http(500, TRUE, <<[latitude |-> JStr(6), longitude |-> JStr(3)]>>)}
        /\ lastOut[c] = <<Raise("HTTPError")>>

\* C13: when two contexts call geocode on one service, their steps
\* interleaved in any way, a completed call has returned the pair and made
\* the attempts that geocode makes when it runs on its own on the registry as
\* built, with the providers answering the same way.
C13_InterleavingIndependent ==
    \A c \in Ctx :
        pc[c] = "done" =>
            LET alone == GeocodeAlone(BuildRegistry(env), address[c], mock)
            IN  /\ alone.defined
                /\ result[c] = alone.result
                /\ attempts[c] = alone.attempts

\* Both calls went through the whole registry, and their two Nominatim
\* requests were sent at the same time: each had begun before the other ended.
C13_Witness ==
    /\ pc[1] = "done"
    /\ pc[2] = "done"
    /\ address[1] # address[2]
    /\ Len(providers) = 3
    /\ attempts[1] = providers
    /\ attempts[2] = providers
    /\ lastGap = Some(0)

\* C12: in the inner loop of main(), every listing the loop has reached was
\* geocoded exactly once and none beyond it was; every listing the loop has
\* passed was handed to save_propro_to_db exactly once, with the pair
\* geocode returned for it, absent or not; and the loop then went on.
C12_OncePerListing ==
    mpc \in {"items", "save"} =>
        \A i \in 1 .. Len(listings) :
            /\ Len(geo[i]) = (IF i < k \/ (i = k /\ mpc = "save") THEN 1 ELSE 0)
            /\ handed[i] = (IF i < k THEN geo[i] ELSE <<>>)

\* A page of two listings is done; the first, with an address, got no
\* coordinates and was handed over without them, and the second followed.
C12_Witness ==
    /\ mpc = "items"
    /\ Len(listings) = 2
    /\ k = 3
    /\ ~IsBlank(listings[1].Location)
    /\ geo[1] = <<NonePair>>
    /\ handed[1] = <<NonePair>>
    /\ Len(geo[2]) = 1
    /\ Populated(geo[2][1])
    /\ handed[2] = geo[2]

InRun == mpc \in {"scrape", "items", "save"}

LeftUnfinished == why \in {"empty", "error"}

\* last_page, in memory and on disk, is a page all of whose listings were
\* geocoded and handed over (or the default).
CheckpointAfterPage ==
    /\ state.last_page \in processed \cup {0}
    /\ file.kind = "json" => file.last_page \in processed \cup {0}

\* Within a run last_page starts one below start_page and moves only to the
\* page just completed, one above it.
AdvancesByOne ==
    /\ [](InRun => state.last_page = page_num - 1 /\ start_page <= page_num)
    /\ [][mpc = "off" /\ mpc' # "off" =>
            state'.last_page = Load(file).last_page
            /\ start_page' = state'.last_page + 1]_vars
    /\ [][mpc # "off" /\ state'.last_page # state.last_page =>
            /\ state'.last_page = state.last_page + 1
            /\ state'.last_page = page_num
            /\ page_num \in processed]_vars

\* A run that an empty page or an error ended has last_page just below the
\* page it was on.
EndsBelowUnfinished ==
    (mpc \in {"finally", "off"} /\ LeftUnfinished) => state.last_page = page_num - 1

\* The run after it starts at that page.
RestartsAtUnfinished ==
    [][mpc = "off" /\ mpc' # "off" /\ LeftUnfinished => start_page' = page_num]_vars

\* The run after it starts at that page when the last state.save() did not
\* fail, and never beyond it.
RestartsAtUnfinishedIfSaved ==
    [][mpc = "off" /\ mpc' # "off" /\ LeftUnfinished =>
         /\ start_page' <= page_num
         /\ wrote \in {"ok", "none"} => start_page' = page_num]_vars

BatchLen(j) == saved_files[j].last - saved_files[j].first + 1

\* C18: the batch files of a run hold consecutive runs of the cleaned records,
\* each of 1 to 100 records and all but the last of 100; they are numbered
\* from the stored total_batches + 1 on; when the run is done every cleaned
\* record is in exactly one of them, and the metadata written has
\* total_batches and total_records raised by the number of files and of
\* cleaned records.
C18_Batches ==
    rpc \in {"loop", "done", "raised"} =>
        /\ rpc = "loop" => current_metadata = metadata
        /\ \A j \in 1 .. Len(saved_files) :
             /\ saved_files[j].number = Stored(current_metadata, "total_batches") + j
             /\ saved_files[j].first = (IF j = 1 THEN 1 ELSE saved_files[j - 1].last + 1)
             /\ saved_files[j].last <= df_clean
             /\ BatchLen(j) >= 1
             /\ BatchLen(j) <= 100
             /\ j < Len(saved_files) => BatchLen(j) = 100
        /\ rpc = "done" =>
             /\ \A r \in 1 .. df_clean :
                  Cardinality({j \in 1 .. Len(saved_files) :
                                 saved_files[j].first <= r /\ r <= saved_files[j].last}) = 1
             /\ metadata # <<>>
             /\ metadata[1].total_batches =
                  Stored(current_metadata, "total_batches") + Len(saved_files)
             /\ metadata[1].total_records =
                  Stored(current_metadata, "total_records") + df_clean

\* 250 cleaned records after a run that had left 3 batches: batches 4, 5 and
\* 6, the last of 50 records.
C18_Witness ==
    /\ rpc = "done"
    /\ df_clean = 250
    /\ current_metadata = <<Metadata(10, 250, 3)>>
    /\ Len(saved_files) = 3
    /\ saved_files[3] = [number |-> 6, first |-> 201, last |-> 250]
    /\ metadata[1].total_batches = 6
    /\ metadata[1].total_records = 500

====
